---- MODULE Spec2Model ----
(***************************************************************************)
(* lddgraph: the report parser (Parser), the edge reconciliation pass and  *)
(* the emitter of src/lddgraph.cpp, as a state machine.  Spec is read_file *)
(* on one input argument; SpecMain is main over a list of arguments.       *)
(*                                                                         *)
(* Strings are sequences of one-character strings, so that trim_front,     *)
(* trim_end, ends_with, trim_outer_parens and getLabels are computed as    *)
(* the code computes them.  A tokenised line is a sequence of fields.      *)
(* Node objects live in `heap` (pointer -> path); `nodes` and `edges` are  *)
(* the two vectors of read_file.                                           *)
(***************************************************************************)
EXTENDS Integers, Sequences, FiniteSets, TLC

VARIABLES
    pc,                 \* position in read_file / process state
    path,               \* Parser::path
    fp,                 \* Parser::fp: "null", "open", "closed"
    is_pipe,            \* Parser::is_pipe
    real_path_pending,  \* Parser::real_path_pending
    cur_node,           \* Parser::cur_node (pointer, NULL = 0)
    got_version_info,   \* Parser::got_version_info
    not_found_node,     \* Parser::not_found_node (pointer, NULL = 0)
    heap,               \* the Node objects: pointer -> Node::path
    nodes,              \* read_file's Nodes vector (pointers)
    edges,              \* read_file's Edges vector (Edge objects)
    at_eof,             \* feof(fp)
    line,               \* the fields of the line read last
    diag,               \* the diagnostic the last step wrote to std::cerr
    nread,              \* number of lines read so far
    out_path,           \* read_file's path argument (updated by close)
    out,                \* what print_output wrote to std::cout
    n_dep,              \* history: lines handled as direct dependencies
    n_ver,              \* history: lines handed to the version-requirement code
    n_nf,               \* history: lines handled as `lib => not found`
    vlog,               \* history: (from, to) -> version strings processed for the pair
    pre_edges,          \* history: the edge vector handed to trim_unlabeled_edges
    file,               \* the file named by path, as open() will meet it
    av,                 \* main's arguments not yet handed to read_file
    written             \* std::cout: the blocks of the arguments before this one

vars == <<pc, path, fp, is_pipe, real_path_pending, cur_node, got_version_info,
          not_found_node, heap, nodes, edges, at_eof, line, diag, nread,
          out_path, out, n_dep, n_ver, n_nf, vlog, pre_edges, file, av,
          written>>

parser == <<path, real_path_pending, cur_node, got_version_info,
            not_found_node, heap, nodes, edges>>

(***************************************************************************)
(* Bounds                                                                  *)
(***************************************************************************)
\* longest input, in lines
MaxLines == 4

NULL == 0

(***************************************************************************)
(* String helpers (src/lddgraph.cpp:96-127)                                *)
(***************************************************************************)
Min(a, b) == IF a < b THEN a ELSE b

\* std::string::substr(pos, n), pos <= size
substr(s, pos, n) == SubSeq(s, pos + 1, Min(pos + n, Len(s)))

trim_front_keep(s, x) == s

trim_front(s, x) ==
    LET n == Len(x)
    IN  IF substr(s, 0, n) = x THEN substr(s, n, Len(s)) ELSE s

ends_with(s, x) ==
    LET n == Len(s)
        m == Len(x)
    IN  n >= m /\ substr(s, n - m, m) = x

trim_end(s, x) ==
    IF ends_with(s, x) THEN substr(s, 0, Len(s) - Len(x)) ELSE s

\* s[0] of an empty std::string is '\0'
has_outer_parens(s) ==
    ends_with(s, <<")">>) /\ Len(s) > 0 /\ s[1] = "("

trim_outer_parens(s) ==
    IF has_outer_parens(s) THEN substr(s, 1, Len(s) - 2) ELSE s

(***************************************************************************)
(* Edge (src/lddgraph.cpp:182-241)                                         *)
(***************************************************************************)
\* Edge::Edge(f, t): no labels yet
Edge(f, t) == [from |-> f, to |-> t, labels |-> <<>>]

RECURSIVE join(_, _, _)
join(labels, delimiter, i) ==
    IF i > Len(labels) THEN <<>>
    ELSE (IF i # 1 THEN delimiter ELSE <<>>) \o labels[i]
         \o join(labels, delimiter, i + 1)

\* Edge::getLabels(delimiter): the labels joined by the delimiter
getLabels(e, delimiter) == join(e.labels, delimiter, 1)

addLabel_front(e, l) == [e EXCEPT !.labels = <<l>> \o @]

\* Edge::addLabel(l)
addLabel(e, l) == [e EXCEPT !.labels = Append(@, l)]

\* Edge::isLabeled(): the space-joined labels are not the empty string
isLabeled(e) == getLabels(e, <<" ">>) # <<>>

(***************************************************************************)
(* Parser lookups (src/lddgraph.cpp:327-352, 500-511)                      *)
(***************************************************************************)
RECURSIVE find_node_from(_, _, _, _)
find_node_from(ns, h, p, i) ==
    IF i > Len(ns) THEN NULL
    ELSE IF h[ns[i]] = p THEN ns[i]
    ELSE find_node_from(ns, h, p, i + 1)

\* a variant that falls back to the root instead of failing
find_existing_node_or_root(ns, h, p) ==
    IF find_node_from(ns, h, p, 1) = NULL THEN ns[1]
    ELSE find_node_from(ns, h, p, 1)

\* the first registered node whose path is p; NULL stands for the fatal
\* exit "cannot find prior reference!"
find_existing_node(ns, h, p) == find_node_from(ns, h, p, 1)

RECURSIVE find_edge_from(_, _, _, _)
find_edge_from(es, from, to, i) ==
    IF i > Len(es) THEN NULL
    ELSE IF es[i].from = from /\ es[i].to = to THEN i
    ELSE find_edge_from(es, from, to, i + 1)

find_edge_swapped(es, from, to) == find_edge_from(es, to, from, 1)

\* a variant that passes over the edges that have no label
RECURSIVE find_labeled_edge_from(_, _, _, _)
find_labeled_edge_from(es, from, to, i) ==
    IF i > Len(es) THEN NULL
    ELSE IF es[i].from = from /\ es[i].to = to /\ es[i].labels # <<>> THEN i
    ELSE find_labeled_edge_from(es, from, to, i + 1)

find_edge_labeled_from_to(es, from, to) == find_labeled_edge_from(es, from, to, 1)

\* position in es of the first edge from `from` to `to`, NULL if none
find_edge_from_to(es, from, to) == find_edge_from(es, from, to, 1)

RECURSIVE find_labeled_from(_, _, _)
find_labeled_from(es, to, i) ==
    IF i > Len(es) THEN NULL
    ELSE IF isLabeled(es[i]) /\ es[i].to = to THEN i
    ELSE find_labeled_from(es, to, i + 1)

\* a variant that takes the first labeled edge, whatever its destination
find_edge_labeled_any(es, to) ==
    IF \E i \in 1 .. Len(es) : isLabeled(es[i])
    THEN CHOOSE i \in 1 .. Len(es) :
             isLabeled(es[i]) /\ \A j \in 1 .. i - 1 : ~isLabeled(es[j])
    ELSE NULL

\* position in es of the first labeled edge to `to`, NULL if none
find_edge_labeled_to(es, to) == find_labeled_from(es, to, 1)

(***************************************************************************)
(* Reconciliation (src/lddgraph.cpp:516-549)                               *)
(***************************************************************************)
RECURSIVE trim_loop(_, _, _)
trim_loop(es, i, saved_edges) ==
    IF i > Len(es) THEN saved_edges
    ELSE LET keep == isLabeled(es[i])
                     \/ find_edge_labeled_to(es, es[i].to) = NULL
         IN  trim_loop(es, i + 1,
                       IF keep THEN Append(saved_edges, es[i]) ELSE saved_edges)

\* the loop starts at the second edge: the first is neither examined nor saved
trim_unlabeled_edges_from_second(es) == trim_loop(es, 2, <<>>)

\* the saved edges are added to the vector instead of replacing it
trim_unlabeled_edges_add(es) == es \o trim_loop(es, 1, <<>>)

\* Parser::trim_unlabeled_edges: edges = saved_edges
trim_unlabeled_edges(es) == trim_loop(es, 1, <<>>)

(***************************************************************************)
(* Input alphabet: the fields std::istringstream can produce               *)
(***************************************************************************)
s_dash == <<"-">>
s_r == <<"r">>
s_dot_r == <<".", "/", "r">>
s_x == <<"x">>
s_y == <<"y">>
s_z == <<"z">>
s_dot_x == <<".", "/", "x">>
s_dot_y == <<".", "/", "y">>
s_arrow == <<"=", ">">>
s_addr == <<"(", "0", ")">>
s_V == <<"(", "V", ")">>
s_noversion == <<"(", ")">>
s_not == <<"n", "o", "t">>
s_found == <<"f", "o", "u", "n", "d">>
s_a == <<"a">>
s_Version == <<"V", "e", "r", "s", "i", "o", "n">>
s_information == <<"i", "n", "f", "o", "r", "m", "a", "t", "i", "o", "n", ":">>
s_version == <<"v", "e", "r", "s", "i", "o", "n">>
s_colon == <<":">>
s_dot_slash == <<".", "/">>
s_not_found == <<"n", "o", "t", " ", "f", "o", "u", "n", "d">>

\* the path arguments of read_file
Args == {s_dash, s_dot_r}

\* the lines of a verbose dependency report over the objects r, x and y
ReportLines ==
    { <<s_x, s_addr>>,                      \* x (0)
      <<s_y, s_addr>>,                      \* y (0)
      <<s_Version, s_information>>,         \* Version information:
      <<s_x \o s_colon>>,                   \* x:
      <<s_r \o s_colon>>,                   \* r:
      <<s_x, s_V, s_arrow, s_dot_x>>,       \* x (V) => ./x
      <<s_x, s_noversion, s_arrow, s_x>>,   \* x () => x
      <<s_x, s_V, s_arrow, s_y>>,           \* x (V) => y
      <<s_x, s_V, s_arrow, s_r>>,           \* x (V) => r
      <<s_x, s_noversion, s_arrow, s_r>> }  \* x () => r

\* further lines: the other shapes of each pattern, and lines of no pattern
OtherLines ==
    { <<>>,                                          \* blank
      <<s_not, s_a, s_x, s_y>>,                      \* not a x y
      <<s_x \o s_colon, s_y \o s_colon, s_version, s_V, s_not>>,
      <<s_x, s_arrow, s_addr>>,                      \* x => (0)
      <<s_x, s_arrow, s_dot_y, s_addr>>,             \* x => ./y (0)
      <<s_dot_x, s_arrow, s_not, s_found>>,          \* ./x => not found
      <<s_dot_x \o s_colon>>,                        \* ./x:
      <<s_z \o s_colon>>,                            \* z:
      <<s_x, s_V, s_arrow, s_z>>,                    \* x (V) => z
      <<s_x>>,                                       \* x
      <<s_x, s_y>>,                                  \* x y
      <<s_x, s_V, s_arrow>>,                         \* x (V) =>
      <<s_y, s_x, s_y, s_r>>,                        \* y x y r
      <<s_x, s_V, s_arrow, s_r, s_y>>,               \* x (V) => r y
      <<s_x, s_y, s_x, s_r, s_y>> }                  \* x y x r y

Lines == ReportLines \cup OtherLines

\* what a read past the end of the field vector can yield
Garbage == {<<>>, s_r}

(***************************************************************************)
(* The shapes of the report lines, as the documentation of process_line    *)
(* names them (src/lddgraph.cpp:407-410, 454, 475)                         *)
(***************************************************************************)
IsNotFoundShape(f) ==
    Len(f) = 4 /\ f[2] = s_arrow /\ f[3] = s_not /\ f[4] = s_found

IsHeadingShape(f) == Len(f) = 1 /\ ends_with(f[1], s_colon)

IsVersionRequirementShape(f) ==
    Len(f) = 4 /\ has_outer_parens(f[2]) /\ f[3] = s_arrow

IsDirectDependencyShape(f) ==
    \/ Len(f) = 2 /\ has_outer_parens(f[2])
    \/ Len(f) = 3 /\ f[2] = s_arrow /\ has_outer_parens(f[3])
    \/ Len(f) = 4 /\ f[2] = s_arrow /\ has_outer_parens(f[4])
    \/ IsNotFoundShape(f)

(***************************************************************************)
(* is_ELF_file (src/lddgraph.cpp:250-310)                                  *)
(***************************************************************************)
\* sizeof(s): EI_NIDENT + sizeof(Elf64_Half)
HeaderSize == 18

\* a file as open() meets it: whether fopen succeeds, its length in bytes
\* (HeaderSize stands for every length of at least a header), whether reading
\* it succeeds, whether its first bytes are those of an ELF dynamic object,
\* whether access(R_OK) succeeds and whether popen/fopen yields a stream
Files == [openable : BOOLEAN, len : 0 .. HeaderSize, read_ok : BOOLEAN,
          magic_ok : BOOLEAN, readable : BOOLEAN, stream_ok : BOOLEAN]

\* no file is consulted: the input is stdin, or open() is over
NoFile == <<>>

\* fread(s, 1, sizeof(s), fp): the number of bytes delivered
fread(f) == IF f.read_ok THEN Min(f.len, HeaderSize) ELSE 0

\* "exit" is the fatal exit, otherwise the boolean returned
is_ELF_file(f) ==
    LET n == fread(f)
    IN  IF ~f.openable THEN "exit"
        ELSE IF n = 0 THEN "exit"
        ELSE IF n < HeaderSize THEN "false"
        ELSE IF ~f.magic_ok THEN "false"
        ELSE "true"

(***************************************************************************)
(* Parser(p) and read_file's locals (src/lddgraph.cpp:552-561, 714-718)    *)
(***************************************************************************)
\* the files an argument may name
FilesAt(p) == IF p = s_dash THEN {NoFile} ELSE Files

Init ==
    /\ pc = "start"
    /\ path \in Args
    /\ file \in FilesAt(path)
    /\ av = <<>>
    /\ written = <<>>
    /\ out_path = path
    /\ fp = "null"
    /\ is_pipe = FALSE
    /\ real_path_pending = FALSE
    /\ cur_node = NULL
    /\ got_version_info = FALSE
    /\ not_found_node = NULL
    /\ heap = <<>>
    /\ nodes = <<>>
    /\ edges = <<>>
    /\ at_eof = FALSE
    /\ line = <<>>
    /\ diag = ""
    /\ nread = 0
    /\ out = <<>>
    /\ n_dep = 0
    /\ n_ver = 0
    /\ n_nf = 0
    /\ vlog = <<>>
    /\ pre_edges = <<>>

history == <<n_dep, n_ver, n_nf, vlog, pre_edges>>

\* main's locals and what std::cout holds of the arguments before this one
main_state == <<av, written>>

\* a variant that writes the diagnostic and lets read_file carry on
report_and_continue(d) ==
    /\ pc' = "closed"
    /\ diag' = d

\* exit(EXIT_FAILURE) with diagnostic d; nothing else changes
Fatal(d) ==
    /\ pc' = "exit_failure"
    /\ diag' = d

(***************************************************************************)
(* Parser::open (src/lddgraph.cpp:563-599)                                 *)
(***************************************************************************)
Open ==
    /\ pc = "start"
    /\ UNCHANGED <<path, cur_node, got_version_info, not_found_node, heap,
                   nodes, edges, at_eof, line, nread, out_path, out, history,
                   main_state>>
    /\ file' = NoFile
    /\ IF path = s_dash
       THEN /\ fp' = "open"
            /\ real_path_pending' = TRUE
            /\ pc' = "opened"
            /\ UNCHANGED <<is_pipe, diag>>
       ELSE LET elf == is_ELF_file(file)
            IN  IF elf = "exit"
                THEN /\ Fatal(IF file.openable THEN "fread failed"
                              ELSE "fopen failed")
                     /\ UNCHANGED <<fp, is_pipe, real_path_pending>>
                ELSE /\ is_pipe' = (elf = "true")
                     /\ real_path_pending' = (elf = "false" /\ file.readable)
                     /\ fp' = IF (elf = "true" \/ file.readable) /\ file.stream_ok
                              THEN "open" ELSE "null"
                     /\ IF fp' = "null"
                        THEN Fatal(IF is_pipe' THEN "popen" ELSE "fopen")
                        ELSE /\ pc' = "opened"
                             /\ UNCHANGED diag

(***************************************************************************)
(* Parser::parse, before its loop (src/lddgraph.cpp:601-605)               *)
(***************************************************************************)
ParseBegin ==
    /\ pc = "opened"
    /\ heap' = <<trim_front(path, s_dot_slash)>>
    /\ nodes' = <<1>>
    /\ cur_node' = 1
    /\ pc' = "parsing"
    /\ UNCHANGED <<path, fp, is_pipe, real_path_pending, got_version_info,
                   not_found_node, edges, at_eof, line, diag, nread, out_path,
                   out, history, file, main_state>>

(***************************************************************************)
(* Parser::process_line (src/lddgraph.cpp:354-498)                         *)
(***************************************************************************)
\* input: not a <...>
is_not_a(f) == Len(f) = 4 /\ f[1] = s_not /\ f[2] = s_a

\* input: <path>: <libpath>: version `<symbol>' not found (required by <path>)
is_unresolvable(f) ==
    /\ Len(f) = 5
    /\ ends_with(f[1], s_colon)
    /\ ends_with(f[2], s_colon)
    /\ f[3] = s_version
    /\ f[5] = s_not

\* input: Version information:
is_version_information(f) ==
    Len(f) = 2 /\ f[1] = s_Version /\ f[2] = s_information

set_version_info_toggle(g) == ~g

\* got_version_info = true
set_version_info(g) == TRUE

\* input: <lib> => not found
not_found(f) == Len(f) = 4 /\ f[3] = s_not /\ f[4] = s_found

need_not_found_node_always(nfn) == TRUE

need_not_found_node_never(nfn) == FALSE

\* not_found_node == NULL
need_not_found_node(nfn) == nfn = NULL

\* f[k] of the code (k counted from 0); g is what the read yields when the
\* vector has no such element
F(f, k, g) == IF k < Len(f) THEN f[k + 1] ELSE g

\* a line that changes nothing but the diagnostic
Warn(d) ==
    /\ diag' = d
    /\ UNCHANGED <<pc, parser, vlog>>

\* the direct-dependency branch: got_version_info == false and 2, 3 or 4 fields
DirectDependency(f) ==
    LET nf       == not_found(f)
        field    == IF nf THEN f[1] ELSE IF Len(f) = 4 THEN f[3] ELSE f[1]
        sub_node == Len(heap) + 1
        heap1    == Append(heap, trim_front(field, s_dot_slash))
        nodes1   == Append(nodes, sub_node)
        edges1   == Append(edges, Edge(cur_node, sub_node))
        create   == nf /\ need_not_found_node(not_found_node)
        sink     == IF create THEN Len(heap1) + 1 ELSE not_found_node
    IN  /\ heap' = IF create THEN Append(heap1, s_not_found) ELSE heap1
        /\ nodes' = IF create THEN Append(nodes1, sink) ELSE nodes1
        /\ not_found_node' = IF nf THEN sink ELSE not_found_node
        /\ edges' = IF nf THEN Append(edges1, Edge(sub_node, sink)) ELSE edges1
        /\ diag' = IF nf THEN "shared object not found" ELSE ""
        /\ UNCHANGED <<pc, path, real_path_pending, cur_node,
                       got_version_info, vlog>>

\* a variant that leaves the flag as it is
pending_kept(p) == p

\* real_path_pending after a heading line: cleared when it was set
pending_after_heading(p) == FALSE

\* input: <path>:
Heading(f) ==
    LET field == trim_front(trim_end(f[1], s_colon), s_dot_slash)
        heap1 == IF real_path_pending
                 THEN [heap EXCEPT ![nodes[1]] = field] ELSE heap
        found == find_existing_node(nodes, heap1, field)
    IN  /\ heap' = heap1
        /\ path' = IF real_path_pending THEN field ELSE path
        /\ real_path_pending' = pending_after_heading(real_path_pending)
        /\ IF found = NULL
           THEN /\ Fatal("cannot find prior reference")
                /\ UNCHANGED cur_node
           ELSE /\ cur_node' = found
                /\ diag' = ""
                /\ UNCHANGED pc
        /\ UNCHANGED <<got_version_info, not_found_node, nodes, edges, vlog>>

\* the rest of process_line, reached in version-info mode by every line that
\* is not a heading.  f[1], f[2] and f[3] are read whatever the number of
\* fields: a read past the end of the vector either ends the process or
\* yields some string
VersionLine(f) ==
    \E g1 \in Garbage, g2 \in Garbage, g3 \in Garbage, crash \in BOOLEAN :
    LET f1    == F(f, 1, g1)
        f2    == F(f, 2, g2)
        f3    == F(f, 3, g3)
        guard == Len(f) # 4 /\ has_outer_parens(f1) /\ f2 = s_arrow
        ub    == \/ Len(f) < 2
                 \/ Len(f) < 3 /\ has_outer_parens(f1)
                 \/ Len(f) < 4 /\ ~guard
        version  == trim_outer_parens(f1)
        field    == trim_front(f3, s_dot_slash)
        sub_node == find_existing_node(nodes, heap, field)
        edge     == find_edge_from_to(edges, cur_node, sub_node)
        key      == <<cur_node, sub_node>>
    IN  IF ub /\ crash
        THEN /\ pc' = "crashed"
             /\ diag' = ""
             /\ UNCHANGED <<parser, vlog>>
        ELSE IF guard
        THEN Warn("unrecognized line")
        ELSE IF sub_node = NULL
        THEN /\ Fatal("cannot find prior reference")
             /\ UNCHANGED <<parser, vlog>>
        ELSE /\ edges' = IF edge = NULL
                         THEN Append(edges,
                                     addLabel(Edge(cur_node, sub_node), version))
                         ELSE [edges EXCEPT ![edge] = addLabel(@, version)]
             /\ vlog' = IF key \in DOMAIN vlog
                        THEN [vlog EXCEPT ![key] = Append(@, version)]
                        ELSE vlog @@ (key :> <<version>>)
             /\ diag' = ""
             /\ UNCHANGED <<pc, path, real_path_pending, cur_node,
                            got_version_info, not_found_node, heap, nodes>>

\* the lines that reach no return before the direct-dependency test
PastAnyMode(f) ==
    Len(f) # 0 /\ ~is_not_a(f) /\ ~is_unresolvable(f) /\ ~is_version_information(f)

\* the lines process_line handles as direct dependencies
InHeaderBranch(f) ==
    PastAnyMode(f) /\ got_version_info = FALSE /\ Len(f) \in {2, 3, 4}

\* the lines process_line hands to its version-requirement code
InVersionBranch(f) ==
    /\ PastAnyMode(f)
    /\ got_version_info
    /\ ~(Len(f) = 1 /\ ends_with(f[1], s_colon))

\* one call of process_line that reads the line with fields f
ProcessLineOf(f) ==
    /\ line' = f
    /\ nread' = nread + 1
    /\ n_dep' = n_dep + (IF InHeaderBranch(f) THEN 1 ELSE 0)
    /\ n_nf' = n_nf + (IF InHeaderBranch(f) /\ not_found(f) THEN 1 ELSE 0)
    /\ n_ver' = n_ver + (IF InVersionBranch(f) THEN 1 ELSE 0)
    /\ UNCHANGED <<fp, is_pipe, at_eof, out_path, out, pre_edges, file,
                   main_state>>
    /\ IF Len(f) = 0
       THEN Warn("")
       ELSE IF is_not_a(f)
       THEN /\ Fatal("not a dynamically loaded file")
            /\ UNCHANGED <<parser, vlog>>
       ELSE IF is_unresolvable(f)
       THEN Warn("some symbol versions are unresolvable")
       ELSE IF is_version_information(f)
       THEN /\ got_version_info' = set_version_info(got_version_info)
            /\ diag' = ""
            /\ UNCHANGED <<pc, path, real_path_pending, cur_node,
                           not_found_node, heap, nodes, edges, vlog>>
       ELSE IF got_version_info = FALSE /\ Len(f) \in {2, 3, 4}
       THEN DirectDependency(f)
       ELSE IF got_version_info = FALSE
       THEN Warn("unrecognized line")
       ELSE IF Len(f) = 1 /\ ends_with(f[1], s_colon)
       THEN Heading(f)
       ELSE VersionLine(f)

\* process_line on an input of any lines
ProcessLine ==
    /\ pc = "parsing"
    /\ nread < MaxLines
    /\ \E f \in Lines : ProcessLineOf(f)

\* fgets returns NULL: end of file, or a read error (feof stays false)
EndOfInput ==
    /\ pc = "parsing"
    /\ at_eof' \in BOOLEAN
    /\ pc' = "parsed"
    /\ UNCHANGED <<parser, fp, is_pipe, line, diag, nread, out_path, out,
                   history, file, main_state>>

(***************************************************************************)
(* Parser::close (src/lddgraph.cpp:619-642)                                *)
(***************************************************************************)
Close ==
    /\ pc = "parsed"
    /\ UNCHANGED <<parser, is_pipe, at_eof, line, nread, out, history, file,
                   main_state>>
    /\ IF ~at_eof
       THEN /\ Fatal("aborted")
            /\ UNCHANGED <<fp, out_path>>
       ELSE \E ok \in BOOLEAN :
            /\ fp' = "closed"
            /\ IF ok
               THEN /\ out_path' = path
                    /\ pc' = "closed"
                    /\ UNCHANGED diag
               ELSE /\ Fatal(IF is_pipe THEN "pclose" ELSE "fclose")
                    /\ UNCHANGED out_path

(***************************************************************************)
(* Parser::finalize (src/lddgraph.cpp:644-658)                             *)
(***************************************************************************)
Finalize ==
    /\ pc = "closed"
    /\ pre_edges' = edges
    /\ edges' = trim_unlabeled_edges(edges)
    /\ pc' = "finalized"
    /\ UNCHANGED <<path, fp, is_pipe, real_path_pending, cur_node,
                   got_version_info, not_found_node, heap, nodes, at_eof, line,
                   diag, nread, out_path, out, n_dep, n_ver, n_nf, vlog, file,
                   main_state>>

(***************************************************************************)
(* print_output (src/lddgraph.cpp:661-707)                                 *)
(***************************************************************************)
\* Node::getPathQuoted
getPathQuoted(p) == <<"\"">> \o p \o <<"\"">>

\* the statement of one edge
EdgeStatement(e) ==
    [from    |-> getPathQuoted(heap[e.from]),
     to      |-> getPathQuoted(heap[e.to]),
     style   |-> IF isLabeled(e) THEN "label" ELSE "dotted",
     label   |-> IF isLabeled(e) THEN getLabels(e, <<"\\", "n">>) ELSE <<>>]

\* a variant that starts the invisible edge at the source of the first edge
info_block_anchor_from(es) ==
    IF Len(es) > 0 THEN <<getPathQuoted(heap[es[1].from])>> ELSE <<>>

\* the sources of the invisible edges to info_block
info_block_anchor(es) ==
    IF Len(es) > 0 THEN <<getPathQuoted(heap[es[1].to])>> ELSE <<>>

PrintOutput ==
    /\ pc = "finalized"
    /\ out' = [info  |-> [file |-> out_path, nodes |-> Len(nodes),
                          edges |-> Len(edges)],
               nodes |-> [i \in 1 .. Len(nodes) |-> getPathQuoted(heap[nodes[i]])],
               edges |-> [i \in 1 .. Len(edges) |-> EdgeStatement(edges[i])],
               invis |-> info_block_anchor(edges)]
    /\ pc' = "printed"
    /\ UNCHANGED <<parser, fp, is_pipe, at_eof, line, diag, nread, out_path,
                   history, file, main_state>>

(***************************************************************************)
(* read_file on one argument (src/lddgraph.cpp:714-727)                    *)
(***************************************************************************)
Next ==
    \/ Open
    \/ ParseBegin
    \/ ProcessLine
    \/ EndOfInput
    \/ Close
    \/ Finalize
    \/ PrintOutput

Spec == Init /\ [][Next]_vars

(***************************************************************************)
(* main (src/lddgraph.cpp:733-753)                                         *)
(***************************************************************************)
\* an argument the usage check rejects
s_dash_q == <<"-", "?">>

\* the argument lists main is started with (av[0] left out)
ArgLists == {<<>>, <<s_dash_q>>, <<s_dash>>, <<s_dot_r>>, <<s_dash, s_dot_r>>,
             <<s_dot_r, s_dash>>, <<s_dot_r, s_dot_r>>}

\* the lines of the inputs of SpecMain
MainLines == {<<s_x, s_addr>>, <<s_Version, s_information>>,
              <<s_x, s_V, s_arrow, s_dot_x>>, <<s_z \o s_colon>>,
              <<s_not, s_a, s_x, s_y>>}

MaxMainLines == 2

\* before main's first statement; no Parser exists yet
InitMain ==
    /\ pc = "main"
    /\ av \in ArgLists
    /\ written = <<>>
    /\ path = <<>>
    /\ file = NoFile
    /\ out_path = <<>>
    /\ fp = "null"
    /\ is_pipe = FALSE
    /\ real_path_pending = FALSE
    /\ cur_node = NULL
    /\ got_version_info = FALSE
    /\ not_found_node = NULL
    /\ heap = <<>>
    /\ nodes = <<>>
    /\ edges = <<>>
    /\ at_eof = FALSE
    /\ line = <<>>
    /\ diag = ""
    /\ nread = 0
    /\ out = <<>>
    /\ n_dep = 0
    /\ n_ver = 0
    /\ n_nf = 0
    /\ vlog = <<>>
    /\ pre_edges = <<>>

\* read_file(*++av) up to the construction of its Parser and its vectors
read_file(p) ==
    /\ path' = p
    /\ out_path' = p
    /\ file' \in FilesAt(p)
    /\ av' = Tail(av)
    /\ fp' = "null"
    /\ is_pipe' = FALSE
    /\ real_path_pending' = FALSE
    /\ cur_node' = NULL
    /\ got_version_info' = FALSE
    /\ not_found_node' = NULL
    /\ heap' = <<>>
    /\ nodes' = <<>>
    /\ edges' = <<>>
    /\ at_eof' = FALSE
    /\ line' = <<>>
    /\ diag' = ""
    /\ nread' = 0
    /\ out' = <<>>
    /\ n_dep' = 0
    /\ n_ver' = 0
    /\ n_nf' = 0
    /\ vlog' = <<>>
    /\ pre_edges' = <<>>
    /\ pc' = "start"

\* the usage check
usage(a) == Len(a) < 1 \/ (a[1][1] = "-" /\ Len(a[1]) > 1)

\* main up to its first call of read_file
Main ==
    /\ pc = "main"
    /\ IF usage(av)
       THEN /\ Fatal("usage")
            /\ UNCHANGED <<parser, fp, is_pipe, at_eof, line, nread, out_path,
                           out, history, file, main_state>>
       ELSE /\ read_file(Head(av))
            /\ UNCHANGED written

\* read_file returns and main's loop calls it on the next argument
NextArgument ==
    /\ pc = "printed"
    /\ av # <<>>
    /\ written' = Append(written, out)
    /\ read_file(Head(av))

\* read_file returns on the last argument: exit(EXIT_SUCCESS)
ExitSuccess ==
    /\ pc = "printed"
    /\ av = <<>>
    /\ pc' = "exit_success"
    /\ UNCHANGED <<parser, fp, is_pipe, at_eof, line, diag, nread, out_path,
                   out, history, file, main_state>>

\* process_line on the inputs of SpecMain
ProcessMainLine ==
    /\ pc = "parsing"
    /\ nread < MaxMainLines
    /\ \E f \in MainLines : ProcessLineOf(f)

NextMain ==
    \/ Main
    \/ Open
    \/ ParseBegin
    \/ ProcessMainLine
    \/ EndOfInput
    \/ Close
    \/ Finalize
    \/ PrintOutput
    \/ NextArgument
    \/ ExitSuccess

SpecMain == InitMain /\ [][NextMain]_vars

(***************************************************************************)
(* Properties                                                              *)
(***************************************************************************)
\* one step of process_line
LineStep == pc = "parsing" /\ nread' = nread + 1

Reconciled == pc \in {"finalized", "printed"}

\* labeled as the data model defines it: the label sequence is not empty
Labeled(e) == Len(e.labels) > 0

LabeledTo(es, n) == \E j \in 1 .. Len(es) : Labeled(es[j]) /\ es[j].to = n

RECURSIVE Survivors(_, _)
Survivors(es, i) ==
    IF i > Len(es) THEN <<>>
    ELSE (IF Labeled(es[i]) \/ ~LabeledTo(es, es[i].to) THEN <<es[i]>> ELSE <<>>)
         \o Survivors(es, i + 1)

\* C1: after the reconciliation pass the edge vector is the
\* pre-reconciliation vector, in its order, without exactly the unlabeled
\* edges whose destination has a labeled edge: every labeled edge survives,
\* an unlabeled edge survives iff no labeled edge has its destination.
C1_Reconciliation == Reconciled => edges = Survivors(pre_edges, 1)

\* C2: at most one edge per (from, to) pair in every state; a
\* version-requirement line whose (current source, destination) pair has an
\* edge appends its version string to that edge and leaves the number of
\* edges unchanged; a version-info line adds an edge only for a pair that
\* had none.
PairHasEdge(es, a, b) == \E k \in 1 .. Len(es) : es[k].from = a /\ es[k].to = b

OneEdgePerPair ==
    \A i, j \in 1 .. Len(edges) :
        (edges[i].from = edges[j].from /\ edges[i].to = edges[j].to) => i = j

VersionLineAppends ==
    (/\ LineStep
     /\ got_version_info
     /\ IsVersionRequirementShape(line')
     /\ pc' = "parsing")
    => LET d == find_existing_node(nodes, heap, trim_front(line'[4], s_dot_slash))
           v == trim_outer_parens(line'[2])
       IN  IF PairHasEdge(edges, cur_node, d)
           THEN /\ Len(edges') = Len(edges)
                /\ \A k \in 1 .. Len(edges) :
                       edges'[k] =
                           IF edges[k].from = cur_node /\ edges[k].to = d
                           THEN [edges[k] EXCEPT !.labels = Append(@, v)]
                           ELSE edges[k]
           ELSE edges' = Append(edges, [from |-> cur_node, to |-> d,
                                        labels |-> <<v>>])

NewEdgeOnlyForNewPair ==
    (LineStep /\ got_version_info /\ Len(edges') > Len(edges))
    => /\ Len(edges') = Len(edges) + 1
       /\ ~PairHasEdge(edges, edges'[Len(edges')].from, edges'[Len(edges')].to)

C2_OneEdgePerPair ==
    /\ []OneEdgePerPair
    /\ [][VersionLineAppends]_vars
    /\ [][NewEdgeOnlyForNewPair]_vars

\* a version-requirement line has just been appended to an existing edge
C2_Witness ==
    /\ pc = "parsing"
    /\ got_version_info
    /\ IsVersionRequirementShape(line)
    /\ \E k \in 1 .. Len(edges) :
           /\ edges[k].from # edges[k].to
           /\ Len(edges[k].labels) >= 2

\* C3: the labels of every edge are, in order, the version strings of the
\* lines processed with the edge's (source, destination) pair; until the
\* reconciliation pass every such pair has its edge; each emitted label is
\* those strings joined in that order.
Logged(a, b) == IF <<a, b>> \in DOMAIN vlog THEN vlog[<<a, b>>] ELSE <<>>

C3_LabelOrder ==
    /\ \A k \in 1 .. Len(edges) :
           edges[k].labels = Logged(edges[k].from, edges[k].to)
    /\ ~Reconciled =>
           \A key \in DOMAIN vlog : PairHasEdge(edges, key[1], key[2])
    /\ pc = "printed" =>
           /\ Len(out.edges) = Len(edges)
           /\ \A k \in 1 .. Len(edges) :
                  out.edges[k].label =
                      join(Logged(edges[k].from, edges[k].to), <<"\\", "n">>, 1)

\* an edge with two different version strings has been emitted
C3_Witness ==
    /\ pc = "printed"
    /\ \E k \in 1 .. Len(edges) :
           /\ Len(edges[k].labels) >= 2
           /\ edges[k].labels[1] # edges[k].labels[2]
           /\ out.edges[k].style = "label"

\* C4: the number of edges emitted is at most the number of
\* version-requirement lines plus the number of direct-dependency lines of
\* the input (counting as such every line process_line handles as one).
C4_EdgeBound == pc = "printed" => Len(out.edges) <= n_ver + n_dep

\* C4, amended: the number of edges, in the vector at any time and in the
\* output, is at most that sum plus the number of `lib => not found` lines,
\* each of which adds a second edge, to the sink node.
C4_EdgeBoundNotFound ==
    /\ Len(edges) <= n_ver + n_dep + n_nf
    /\ pc = "printed" => Len(out.edges) <= n_ver + n_dep + n_nf

\* a report with a `not found` line has been emitted with as many edges as
\* the amended bound allows
C4_Witness ==
    /\ pc = "printed"
    /\ n_nf >= 1
    /\ n_ver >= 1
    /\ Len(out.edges) = n_ver + n_dep + n_nf

\* C5: the reconciliation pass applied to its own result changes nothing.
C5_Idempotent == Reconciled => trim_unlabeled_edges(edges) = edges

\* the pass has removed an edge and kept others
C5_Witness ==
    /\ Reconciled
    /\ Len(edges) < Len(pre_edges)
    /\ Len(edges) >= 2

\* C6: the mode becomes version-info on the first `Version information:`
\* line, by no other line, and never changes back; a later
\* `Version information:` line changes neither mode, nodes, edges nor the
\* current source node.
ModeSwitch ==
    /\ (LineStep /\ ~got_version_info /\ is_version_information(line'))
       => got_version_info'
    /\ (~got_version_info /\ got_version_info')
       => (LineStep /\ is_version_information(line'))
    /\ got_version_info => got_version_info'
    /\ (LineStep /\ got_version_info /\ is_version_information(line'))
       => UNCHANGED <<got_version_info, heap, nodes, edges, cur_node>>

C6_ModeSwitch == [][ModeSwitch]_vars

\* a `Version information:` line has been read after a version line
C6_Witness ==
    /\ is_version_information(line)
    /\ got_version_info
    /\ \E k \in 1 .. Len(edges) : Len(edges[k].labels) > 0

\* C7: with the path pending, the first heading line `P:` read in
\* version-info mode sets the root node's path and the input path to P
\* without its trailing `:` and leading `./`; neither changes afterwards, and
\* the informational node and the root node statement show them.
DropDotSlash(s) ==
    IF Len(s) >= 2 /\ s[1] = "." /\ s[2] = "/" THEN SubSeq(s, 3, Len(s)) ELSE s

HeadingPath(s) == DropDotSlash(SubSeq(s, 1, Len(s) - 1))

AdoptHeading ==
    (LineStep /\ real_path_pending /\ got_version_info /\ IsHeadingShape(line'))
    => /\ heap'[nodes[1]] = HeadingPath(line'[1])
       /\ path' = HeadingPath(line'[1])
       /\ ~real_path_pending'
       /\ pc' = "parsing"

KeepAdopted ==
    (pc \in {"parsing", "parsed", "closed", "finalized"} /\ ~real_path_pending)
    => /\ path' = path
       /\ heap'[nodes[1]] = heap[nodes[1]]
       /\ ~real_path_pending'

\* not a pipe and no longer pending: a heading has been adopted
OutputShowsPath ==
    (pc = "printed" /\ ~is_pipe /\ ~real_path_pending) =>
        /\ out.info.file = path
        /\ out.nodes[1] = <<"\"">> \o path \o <<"\"">>

C7_AdoptHeading ==
    /\ [][AdoptHeading]_vars
    /\ [][KeepAdopted]_vars
    /\ []OutputShowsPath

\* standard input or a text file: the output shows the heading's path x
C7_Witness ==
    /\ pc = "printed"
    /\ ~is_pipe
    /\ out.info.file = s_x
    /\ out.nodes[1] = <<"\"">> \o s_x \o <<"\"">>

\* C8: a header-mode line `lib => not found` adds a node named lib (without
\* a leading `./`), an unlabeled edge from the root to it and an edge from
\* it to the "not found" sink; the registry holds exactly one sink node once
\* there was such a line, and none before.
Range(q) == {q[i] : i \in 1 .. Len(q)}

Sinks == {i \in 1 .. Len(nodes) : heap[nodes[i]] = s_not_found}

NotFoundLine ==
    (LineStep /\ ~got_version_info /\ IsNotFoundShape(line'))
    => LET n == Len(heap) + 1
       IN  /\ heap'[n] = DropDotSlash(line'[1])
           /\ nodes'[Len(nodes) + 1] = n
           /\ Len(edges') = Len(edges) + 2
           /\ edges'[Len(edges) + 1] = [from |-> nodes[1], to |-> n, labels |-> <<>>]
           /\ edges'[Len(edges) + 2] =
                  [from |-> n, to |-> not_found_node', labels |-> <<>>]
           /\ not_found_node' \in Range(nodes')
           /\ heap'[not_found_node'] = s_not_found
           /\ SubSeq(edges', 1, Len(edges)) = edges

C8_OneSink ==
    /\ [][NotFoundLine]_vars
    /\ [](Cardinality(Sinks) = IF n_nf > 0 THEN 1 ELSE 0)

\* two `not found` lines have been read
C8_Witness ==
    /\ n_nf >= 2
    /\ Cardinality(Sinks) = 1
    /\ Len(edges) >= 4

\* C9: the source and destination of every edge are in the node registry,
\* no node is registered twice, and no step taken in version-info mode
\* changes the registry.
EdgesInRegistry ==
    /\ \A k \in 1 .. Len(edges) :
           edges[k].from \in Range(nodes) /\ edges[k].to \in Range(nodes)
    /\ \A i, j \in 1 .. Len(nodes) : nodes[i] = nodes[j] => i = j

C9_Registry ==
    /\ []EdgesInRegistry
    /\ [][got_version_info => nodes' = nodes]_vars

\* version lines have been processed over a registry of several nodes
C9_Witness ==
    /\ got_version_info
    /\ Len(nodes) >= 3
    /\ \E k \in 1 .. Len(edges) : Len(edges[k].labels) > 0 /\ edges[k].from # nodes[1]

\* C10: in version-info mode a non-blank line that is no heading, no
\* `lib (version) => path` line and no any-mode pattern logs "unrecognized
\* line", is not fatal and changes neither nodes, edges, mode nor the
\* current source node.
UnrecognizedInVersionInfo ==
    (/\ LineStep
     /\ got_version_info
     /\ Len(line') > 0
     /\ ~IsHeadingShape(line')
     /\ ~IsVersionRequirementShape(line')
     /\ ~is_not_a(line')
     /\ ~is_unresolvable(line')
     /\ ~is_version_information(line'))
    => /\ diag' = "unrecognized line"
       /\ pc' = "parsing"
       /\ UNCHANGED <<heap, nodes, edges, got_version_info, cur_node>>

C10_Unrecognized == [][UnrecognizedInVersionInfo]_vars

\* the process has ended: a fatal exit, or read_file has returned
Terminated == pc \in {"exit_failure", "printed", "exit_success"}

\* C11: on every path by which processing ends, the fatal exits of parsing
\* included, the stream opened by Parser::open has been closed
C11_StreamClosed == Terminated => fp # "open"

\* C12: the emitted block has one informational node whose node count is the
\* number of node statements and whose edge count is the number of edge
\* statements, both counted after reconciliation; the node statements
\* follow node-creation order; there is exactly one invisible edge, from the
\* destination of the first surviving edge, when an edge survives, and none
\* otherwise
C12_Block ==
    pc = "printed" =>
        /\ out.info.nodes = Len(out.nodes)
        /\ out.info.edges = Len(out.edges)
        /\ Len(out.nodes) = Len(heap)
        /\ \A p \in 1 .. Len(heap) : out.nodes[p] = getPathQuoted(heap[p])
        /\ Len(out.edges) = Len(trim_unlabeled_edges(pre_edges))
        /\ IF Len(trim_unlabeled_edges(pre_edges)) > 0
           THEN out.invis = <<getPathQuoted(
                       heap[trim_unlabeled_edges(pre_edges)[1].to])>>
           ELSE out.invis = <<>>

\* a block whose first surviving edge is not the first edge created
C12_Witness ==
    /\ pc = "printed"
    /\ Len(out.invis) = 1
    /\ Len(pre_edges) > Len(out.edges)
    /\ pre_edges[1] # edges[1]
    /\ out.invis[1] # out.nodes[1]

\* the identifier of a direct-dependency line: the resolved path if the line
\* has one, else the raw library name
DependencyId(f) ==
    IF Len(f) = 4 /\ ~IsNotFoundShape(f) THEN f[3] ELSE f[1]

HeaderDependencyStep ==
    LineStep /\ ~got_version_info /\ IsDirectDependencyShape(line')

RegistersDependency ==
    HeaderDependencyStep =>
        LET id      == DropDotSlash(DependencyId(line'))
            created == Len(nodes) + 1 .. Len(nodes')
            added   == Len(edges) + 1 .. Len(edges')
        IN  /\ SubSeq(nodes', 1, Len(nodes)) = nodes
            /\ SubSeq(edges', 1, Len(edges)) = edges
            /\ Cardinality({i \in created : heap'[nodes'[i]] = id}) = 1
            /\ heap'[nodes'[Len(nodes) + 1]] = id
            /\ nodes'[Len(nodes) + 1] \notin Range(nodes)
            /\ \A i \in created \ {Len(nodes) + 1} :
                   heap'[nodes'[i]] = s_not_found
            /\ Cardinality({k \in added : edges'[k].from = nodes[1]}) = 1
            /\ edges'[Len(edges) + 1] =
                   [from |-> nodes[1], to |-> nodes'[Len(nodes) + 1],
                    labels |-> <<>>]
            /\ cur_node' = nodes[1]
            /\ pc' = "parsing"

HeaderAtRoot ==
    (pc = "parsing" /\ ~got_version_info) => cur_node = nodes[1]

\* C13: every direct-dependency line in header mode registers exactly one new
\* node for its identifier (the resolved path if present and not
\* `not found`, else the raw library name, without a leading `./`), even
\* when a node of the same path is registered, and adds exactly one unlabeled
\* edge whose source is the root; in header mode the current source node is
\* the root
C13_HeaderDependency ==
    /\ [][RegistersDependency]_vars
    /\ []HeaderAtRoot

\* two direct-dependency lines of one resolved path: two nodes, two edges
C13_Witness ==
    /\ pc = "parsing"
    /\ ~got_version_info
    /\ IsDirectDependencyShape(line)
    /\ \E i, j \in 2 .. Len(nodes) :
           /\ i < j
           /\ heap[nodes[i]] = heap[nodes[j]]
           /\ heap[nodes[j]] = DropDotSlash(DependencyId(line))
           /\ \E k \in 1 .. Len(edges) :
                  edges[k] = [from |-> nodes[1], to |-> nodes[j], labels |-> <<>>]

\* a version-requirement line read in version-info mode; d is its
\* destination node, v its version string
VersionRequirementStep ==
    LineStep /\ got_version_info /\ IsVersionRequirementShape(line')

\* the edges created by the header phase are the first n_dep + n_nf edges; one
\* of them is unlabeled as long as no version line has reached it
HeaderEdgeOfLine(k) ==
    /\ k \in 1 .. Len(edges)
    /\ edges[k].from = cur_node
    /\ edges[k].to = find_existing_node(nodes, heap,
                                        trim_front(line'[4], s_dot_slash))
    /\ edges[k].labels = <<>>

SeparateLabeledEdge ==
    VersionRequirementStep =>
        \A k \in 1 .. Len(edges) : HeaderEdgeOfLine(k) =>
            /\ Len(edges') = Len(edges) + 1
            /\ edges'[k] = edges[k]
            /\ edges'[Len(edges')] =
                   [from |-> edges[k].from, to |-> edges[k].to,
                    labels |-> <<trim_outer_parens(line'[2])>>]

LabelsHeaderEdge ==
    VersionRequirementStep =>
        \A k \in 1 .. Len(edges) : HeaderEdgeOfLine(k) =>
            /\ Len(edges') = Len(edges)
            /\ edges'[k] = [edges[k] EXCEPT
                               !.labels = <<trim_outer_parens(line'[2])>>]
            /\ \A j \in 1 .. Len(edges) : j # k => edges'[j] = edges[j]

HeadingStep == LineStep /\ got_version_info /\ IsHeadingShape(line')

\* the path of some registered node is p
Registered(p) == \E i \in 1 .. Len(nodes) : heap[nodes[i]] = p

\* the first registered node whose path is p
FirstRegistered(p) ==
    nodes[CHOOSE i \in 1 .. Len(nodes) :
              /\ heap[nodes[i]] = p
              /\ \A j \in 1 .. i - 1 : heap[nodes[j]] # p]

FatalUnlessRegistered ==
    HeadingStep =>
        LET P == HeadingPath(line'[1])
        IN  IF Registered(P)
            THEN /\ pc' = "parsing"
                 /\ cur_node' \in Range(nodes)
                 /\ heap[cur_node'] = P
                 /\ UNCHANGED <<heap, nodes, edges>>
            ELSE /\ pc' = "exit_failure"
                 /\ diag' = "cannot find prior reference"

\* C15: in version-info mode, for every input source kind, a heading `P:`
\* whose path P is the path of no registered node when the line is read is a
\* fatal exit; when a node with path P is registered, the current source
\* node becomes that node and nodes and edges are otherwise unchanged
C15_FatalUnlessRegistered == [][FatalUnlessRegistered]_vars

HeadingLookup ==
    HeadingStep =>
        LET P == HeadingPath(line'[1])
        IN  IF real_path_pending
            THEN /\ pc' = "parsing"
                 /\ heap' = [heap EXCEPT ![nodes[1]] = P]
                 /\ cur_node' = nodes[1]
                 /\ UNCHANGED <<nodes, edges>>
            ELSE IF Registered(P)
            THEN /\ pc' = "parsing"
                 /\ cur_node' = FirstRegistered(P)
                 /\ UNCHANGED <<heap, nodes, edges>>
            ELSE /\ pc' = "exit_failure"
                 /\ diag' = "cannot find prior reference"
                 /\ UNCHANGED <<heap, nodes, edges, cur_node>>

\* C15, amended: a heading `P:` read while the input path is final (a binary,
\* or after the first heading of a plain file or of standard input) is a
\* fatal exit when no registered node has path P, and otherwise makes the
\* first registered node of path P the current source node, nodes and edges
\* unchanged; the first heading read while the path is pending is never
\* fatal: it renames the root to P and makes the root the current source node
C15_HeadingLookup == [][HeadingLookup]_vars

\* a pending run has adopted a heading whose path no node had
C15_Witness ==
    /\ pc = "parsing"
    /\ ~is_pipe
    /\ IsHeadingShape(line)
    /\ n_dep = 0
    /\ nodes = <<cur_node>>
    /\ heap[cur_node] = HeadingPath(line[1])
    /\ heap[cur_node] = s_z

\* the path of the root node, once the root exists
RootPath == IF nodes = <<>> THEN <<>> ELSE heap[nodes[1]]

\* the root exists and its path, or the input path, changes in this step
Rewrite ==
    /\ nodes # <<>>
    /\ nodes' # <<>>
    /\ (RootPath' # RootPath \/ path' # path)

RewriteOnlyWhilePending ==
    (pc \in {"parsing", "parsed", "closed", "finalized"} /\ Rewrite)
    => /\ real_path_pending
       /\ ~real_path_pending'
       /\ HeadingStep
       /\ RootPath' = HeadingPath(line'[1])
       /\ path' = RootPath'

ReportedPathFollows ==
    (pc \in {"parsing", "parsed", "closed", "finalized"}
        /\ out_path' # out_path)
    => pc = "parsed" /\ out_path' = path /\ path' = path

\* once the stream is open and the path is final, it stays final
StaysFinal ==
    (pc \in {"opened", "parsing", "parsed", "closed", "finalized"}
        /\ ~real_path_pending)
    => ~real_path_pending'

BinaryPathFinal == is_pipe => ~real_path_pending

\* C16: the root's path is rewritten at most once per input: only by a
\* heading read while the path is pending, which ends the pending state for
\* good; a binary run through the lister is never pending, so no line
\* changes its root path or its reported path
C16_RewriteOnce ==
    /\ [][RewriteOnlyWhilePending]_vars
    /\ [][StaysFinal]_vars
    /\ [][ReportedPathFollows]_vars
    /\ []BinaryPathFinal

\* a pending run that, after the adopted heading r:, has read the heading x:
C16_Witness ==
    /\ pc = "parsing"
    /\ ~is_pipe
    /\ ~real_path_pending
    /\ IsHeadingShape(line)
    /\ HeadingPath(line[1]) # RootPath
    /\ RootPath # DropDotSlash(out_path)
    /\ path = RootPath
    /\ cur_node # nodes[1]

\* a non-blank header-mode line that is neither an any-mode pattern, nor
\* `Version information:`, nor of a direct-dependency shape
OtherHeaderStep ==
    /\ LineStep
    /\ ~got_version_info
    /\ line' # <<>>
    /\ ~is_not_a(line')
    /\ ~is_unresolvable(line')
    /\ ~is_version_information(line')
    /\ ~IsDirectDependencyShape(line')

OnlyDependencyShapesCreate ==
    (LineStep /\ ~got_version_info
        /\ (Len(nodes') > Len(nodes) \/ Len(edges') > Len(edges)))
    => IsDirectDependencyShape(line')

OtherHeaderLineUnrecognized ==
    OtherHeaderStep =>
        /\ diag' = "unrecognized line"
        /\ pc' = "parsing"
        /\ UNCHANGED <<heap, nodes, edges, got_version_info, cur_node>>

\* C17: in header mode only a line of a direct-dependency shape creates a
\* node and an edge; every other non-blank header line that is not an
\* any-mode pattern or `Version information:` is logged unrecognized, is not
\* fatal, and leaves nodes, edges, mode and current source node unchanged
C17_HeaderShapes ==
    /\ [][OnlyDependencyShapesCreate]_vars
    /\ [][OtherHeaderLineUnrecognized]_vars

\* open() is about to inspect a file that can be opened and read
SniffStep == pc = "start" /\ file # NoFile /\ file.openable /\ file.read_ok

\* the diagnostics of is_ELF_file's two fatal exits
SnifferExits == {"fopen failed", "fread failed"}

ShortFileIsText ==
    (SniffStep /\ file.len < HeaderSize) =>
        /\ ~(pc' = "exit_failure" /\ diag' \in SnifferExits)
        /\ is_ELF_file(file) = "false"
        /\ ~is_pipe'

SnifferExitOnlyOnFailure ==
    (pc = "start" /\ pc' = "exit_failure" /\ diag' \in SnifferExits)
    => (~file.openable \/ ~file.read_ok)

\* C18: for every file that can be opened, is_ELF_file returns false without
\* a fatal exit whenever the file is shorter than the inspected header, for
\* every length from 0 to the header size less one; its fatal exit happens
\* only when the file cannot be opened or read
C18_ShortFile ==
    /\ [][ShortFileIsText]_vars
    /\ [][SnifferExitOnlyOnFailure]_vars

\* C19: an edge is treated as labeled (isLabeled) if and only if its label
\* sequence is not empty; every edge that received a version string, the
\* empty string of `()` included, is treated as labeled
C19_IsLabeled ==
    /\ \A k \in 1 .. Len(edges) :
           isLabeled(edges[k]) <=> Len(edges[k].labels) > 0
    /\ \A k \in 1 .. Len(edges) :
           Logged(edges[k].from, edges[k].to) # <<>> => isLabeled(edges[k])

\* the diagnostics of the fatal exits of main, open, process_line and close
FatalDiags == {"usage", "fopen failed", "fread failed", "fopen", "popen",
               "not a dynamically loaded file", "cannot find prior reference",
               "aborted", "fclose", "pclose"}

\* a block of this argument is on std::cout
BlockWritten == out # <<>>

\* the block is written only after the input was read to its end, closed
\* and reconciled, and after no fatal condition
BlockAfterAll ==
    BlockWritten =>
        /\ pc \in {"printed", "exit_success"}
        /\ at_eof
        /\ fp = "closed"
        /\ edges = trim_unlabeled_edges(pre_edges)
        /\ diag \notin FatalDiags

NothingOnFatal == pc = "exit_failure" => ~BlockWritten

\* std::cout only grows, by whole blocks, and only when read_file returns
BlocksStay ==
    \/ written' = written
    \/ pc = "printed" /\ BlockWritten /\ written' = Append(written, out)

BlockWrittenAtOnce ==
    out' # out =>
        \/ pc = "finalized" /\ ~BlockWritten
        \/ pc = "printed" /\ out' = <<>> /\ written' = Append(written, out)

\* C20: the graph block of an argument is all-or-nothing: it is written only
\* after the input has been read to end of file, closed and reconciled; if a
\* fatal condition occurs while opening, parsing or closing that argument, no
\* part of its block is written, and the blocks of the arguments before it
\* stay written
C20_AllOrNothing ==
    /\ []BlockAfterAll
    /\ []NothingOnFatal
    /\ [][BlocksStay]_vars
    /\ [][BlockWrittenAtOnce]_vars

\* the second argument ended in a fatal exit while parsing: the block of the
\* first is written, nothing of the second
C20_Witness ==
    /\ pc = "exit_failure"
    /\ diag = "cannot find prior reference"
    /\ Len(written) = 1
    /\ written[1].info.edges = 1
    /\ ~BlockWritten

\* node n is the destination of an edge of es
HasIncoming(es, n) == \E k \in 1 .. Len(es) : es[k].to = n

\* C21: reconciliation never orphans a node: after the reconciliation pass
\* of an input that did not end in a fatal exit, every registered node other
\* than the root (nodes[0]) is the destination of at least one surviving edge
C21_NoOrphan ==
    Reconciled =>
        \A i \in 2 .. Len(nodes) : HasIncoming(edges, nodes[i])

\* the pass removed the header edge root -> n of a node n, which is still
\* the destination of a surviving edge, while another node is reached by an
\* unlabeled edge only
C21_Witness ==
    /\ Reconciled
    /\ \E i \in 2 .. Len(nodes) :
           /\ \E k \in 1 .. Len(pre_edges) :
                  /\ pre_edges[k].from = nodes[1]
                  /\ pre_edges[k].to = nodes[i]
                  /\ pre_edges[k].labels = <<>>
           /\ ~PairHasEdge(edges, nodes[1], nodes[i])
           /\ HasIncoming(edges, nodes[i])
    /\ \E j \in 2 .. Len(nodes) :
           /\ HasIncoming(edges, nodes[j])
           /\ \A k \in 1 .. Len(edges) :
                  edges[k].to = nodes[j] => edges[k].labels = <<>>

====
